---- MODULE Spec2Model ----
(***************************************************************************)
(* A model of the OAuth token lifecycle (GoogleAuthService), the API       *)
(* client (GoogleMyBusinessApiClient) and the review operations            *)
(* (ReviewService) of the Google Business Profile review server.           *)
(*                                                                         *)
(* The program is single-threaded and cooperatively scheduled: an action   *)
(* of the model is the code that runs between two suspension points (an    *)
(* await on the network).  The upstream (OAuth endpoint, review API) and   *)
(* the clock are the environment: every response is a nondeterministic     *)
(* choice.                                                                 *)
(*                                                                         *)
(* Time is counted in ticks.  MsPerSec ticks make one second, so that the  *)
(* code's Math.floor(ms / 1000) stays a lossy conversion.                  *)
(***************************************************************************)
EXTENDS Integers, Sequences, FiniteSets, TLC

VARIABLES
    now,        \* Date.now()
    tokens,     \* GoogleAuthService.tokens
    lo,         \* logout in flight: "idle" | "revoking"
    op,         \* the ReviewService operation in flight and where it is suspended
    call,       \* the arguments of the operation in flight (or of the last one)
    upstream,   \* the upstream review listing of that operation: cursor -> page
    result,     \* the ServiceResponse the last operation returned
    fetchLog,   \* the cursors of the review-page fetches of that operation, in order
    exchanges,  \* the refresh exchanges issued by that operation (counted up to MaxCount)
    netLog,     \* the account lookups (counted up to MaxCount) and the location
                \* fetches of that operation
    ev,         \* what the last step did to the token set ("step": nothing)
    stats,      \* the getReviewStats call in flight: listing, cursor, reviews read, result
    mock        \* MockReviewService: mockReviews and what its last operation returned

vars == <<now, tokens, lo, op, call, upstream, result, fetchLog, exchanges, netLog, ev,
          stats, mock>>

\* the state of GoogleAuthService and ReviewService
service == <<now, tokens, lo, op, call, upstream, result, fetchLog, exchanges, netLog, ev>>

----------------------------------------------------------------------------
(* Bounds of the model *)

MaxTime == 2        \* the clock runs from 1 to MaxTime
MaxPages == 2       \* pages of an upstream listing (the first page and MaxPages-1 cursors)
MaxRev == 2         \* reviews per upstream page
MaxLead == 1        \* an upstream expiry_date lies at most MaxLead ticks ahead of the clock
MaxAccounts == 2    \* accounts of the authenticated user
MaxCount == 2       \* the refresh exchanges of one operation are counted up to MaxCount
MaxStatReviews == 2 \* reviews of the location whose statistics are asked for
MaxPageSize == 3    \* the pageSize of a MockReviewService.getReviews call
MaxAdded == 1       \* reviews added to the mock with addMockReview

\* review-page fetches of one operation the model follows: one more than the
\* listing has pages, so that a cursor served twice is seen
MaxFetch == MaxPages + 1

(* Program constants, scaled to the model's clock *)

MaxReplyLength == 4096     \* the longest replyText the post_reply tool lets through
MsPerSec == 2           \* 1000: expires_in is in seconds, expires_at in milliseconds
DefaultExpiresIn == 1   \* 3600: the lifetime assumed when upstream gives no expiry_date

Undef == "undefined"
NoCursor == 0           \* pageToken undefined: the first page
Cursors == 1 .. (MaxPages - 1)

----------------------------------------------------------------------------
(* GoogleAuthService: the token set *)

NullTokens ==
    [exists |-> FALSE, access_token |-> Undef, refresh_token |-> Undef,
     scope |-> Undef, token_type |-> Undef, expires_in |-> 0, expires_at |-> 0]

\* the spread {...this.tokens}: of null it is the empty object
Spread(t) == [t EXCEPT !.exists = TRUE]

\* a validity test that wants a margin before the expiry
IsTokenValidWithMargin ==
    IF ~tokens.exists THEN FALSE ELSE now + 1 < tokens.expires_at

IsTokenValid ==
    IF ~tokens.exists THEN FALSE ELSE now < tokens.expires_at

\* getAuthenticatedClient throws unless this holds
ClientAvailable == tokens.exists /\ IsTokenValid


----------------------------------------------------------------------------
(* What the OAuth endpoint can answer *)

\* expiry_date 0 is "no expiry_date": the code tests it with ||, and 0 is falsy
ExpiryDates == {0} \cup (now .. now + MaxLead)

\* the tokens of an authorization-code exchange (getToken)
IssuedTokens ==
    [access_token : {"at1"}, refresh_token : {Undef, "rt1"}, scope : {"s1"},
     token_type : {Undef, "Bearer"}, expiry_date : ExpiryDates]

\* the credentials of a refresh exchange (refreshAccessToken); upstream may
\* reissue the refresh token, and then the answer carries scope and token_type
Credentials ==
    [access_token : {"at2"}, refresh_token : {Undef}, scope : {Undef},
     token_type : {Undef}, expiry_date : ExpiryDates]
    \cup
    [access_token : {"at2"}, refresh_token : {"rt2"}, scope : {"s2"},
     token_type : {"Bearer"}, expiry_date : ExpiryDates]

NoCred ==
    [access_token |-> Undef, refresh_token |-> Undef, scope |-> Undef,
     token_type |-> Undef, expiry_date |-> 0]

\* handleCallback's token set
StoreIssued(t) ==
    [exists |-> TRUE,
     access_token |-> t.access_token,
     refresh_token |-> t.refresh_token,
     scope |-> t.scope,
     token_type |-> IF t.token_type = Undef THEN "Bearer" ELSE t.token_type,
     expires_in |-> IF t.expiry_date # 0
                      THEN (t.expiry_date - now) \div MsPerSec
                      ELSE DefaultExpiresIn,
     expires_at |-> IF t.expiry_date # 0
                      THEN t.expiry_date
                      ELSE now + DefaultExpiresIn * MsPerSec]

\* the 'tokens' event handler of the constructor.  The event carries no
\* expires_in, so its expires_at is NaN: 0 here, which like NaN is never in
\* the future.
TokensHandler(t, c) ==
    IF c.refresh_token # Undef
      THEN [Spread(t) EXCEPT !.access_token = c.access_token,
                             !.refresh_token = c.refresh_token,
                             !.scope = c.scope,
                             !.token_type = c.token_type,
                             !.expires_at = 0]
      ELSE t

\* an assignment that keeps nothing of the previous token set
RefreshedFromCredentialsOnly(t, c) ==
    [exists |-> TRUE,
     access_token |-> c.access_token,
     refresh_token |-> c.refresh_token,
     scope |-> c.scope,
     token_type |-> c.token_type,
     expires_in |-> IF c.expiry_date # 0
                      THEN (c.expiry_date - now) \div MsPerSec
                      ELSE DefaultExpiresIn,
     expires_at |-> IF c.expiry_date # 0
                      THEN c.expiry_date
                      ELSE now + DefaultExpiresIn * MsPerSec]

\* refreshTokenIfNeeded's assignment after the exchange
Refreshed(t, c) ==
    [Spread(t) EXCEPT !.access_token = c.access_token,
                      !.expires_in = IF c.expiry_date # 0
                                       THEN (c.expiry_date - now) \div MsPerSec
                                       ELSE DefaultExpiresIn,
                      !.expires_at = IF c.expiry_date # 0
                                       THEN c.expiry_date
                                       ELSE now + DefaultExpiresIn * MsPerSec]

\* logout's local state
LoggedOut == NullTokens

----------------------------------------------------------------------------
(* Records of the model *)

IdleOp == [pc |-> "idle", ret |-> "idle", loc |-> <<>>, pageToken |-> NoCursor,
           path |-> <<>>, nested |-> FALSE, todo |-> <<>>, locations |-> <<>>]

\* no account lookup, no account list, no location fetch and no response yet
\* (status: the HTTP status of the last response to get or put, 0 before it)
NoRequests == [lookups |-> 0, accounts |-> 0, locationFetches |-> <<>>,
               status |-> 0]

\* variant: the ReviewService of the call resolves a location with
\* resolveLocationPath ("helper") or inline, in the operation itself ("inline")
\* replyLength: replyText.length of a postReply; tool: the call comes from
\* the post_reply tool handler
NoCall == [kind |-> "none", loc |-> <<>>, pageToken |-> NoCursor,
           variant |-> "helper", replyLength |-> 0, tool |-> FALSE]

NoResult ==
    [kind |-> "none", success |-> FALSE, reviews |-> <<>>, nextPageToken |-> NoCursor,
     locations |-> <<>>, error |-> Undef, errorCode |-> Undef]

Event(tag) == [tag |-> tag, pre |-> NullTokens, cred |-> NoCred, ret |-> NullTokens]

Failure(kind, msg, code) ==
    [kind |-> kind, success |-> FALSE, reviews |-> <<>>, nextPageToken |-> NoCursor,
     locations |-> <<>>, error |-> msg, errorCode |-> code]

Success(kind) ==
    [kind |-> kind, success |-> TRUE, reviews |-> <<>>, nextPageToken |-> NoCursor,
     locations |-> <<>>, error |-> Undef, errorCode |-> Undef]

\* the errorCode of each operation's catch block
CatchCode(kind) ==
    CASE kind = "listLocations" -> "LOCATIONS_FETCH_ERROR"
      [] kind = "getReviews" -> "REVIEWS_FETCH_ERROR"
      [] kind = "postReply" -> "REPLY_POST_ERROR"
      [] OTHER -> "PROFILE_FETCH_ERROR"


----------------------------------------------------------------------------
(* The upstream review listing *)

PageKeys == {NoCursor} \cup Cursors

\* the reviewReply fields of the reviews of one page, in order
ReplyLists == UNION {[1 .. n -> {Undef, "reply"}] : n \in 0 .. MaxRev}

AllListings == [PageKeys -> [replies : ReplyLists, nextPageToken : PageKeys]]

EmptyPage == [replies |-> <<>>, nextPageToken |-> NoCursor]

\* the pages a walk from cursor c can reach
RECURSIVE Reach(_, _, _)
Reach(u, seen, n) ==
    IF n = 0 THEN seen
    ELSE Reach(u, seen \cup ({u[k].nextPageToken : k \in seen} \ {NoCursor}), n - 1)

\* a listing and a starting cursor; the pages the walk cannot reach are left empty
Listings ==
    {<<c, u>> \in PageKeys \X AllListings :
        \A k \in PageKeys \ Reach(u, {c}, MaxPages) : u[k] = EmptyPage}

\* the raw reviews of page c, as the API returns them
RawReviews(u, c) ==
    [i \in 1 .. Len(u[c].replies) |->
        [reviewId |-> c * MaxRev + i, reviewReply |-> u[c].replies[i]]]

\* the answer to GET {path}/reviews?pageToken=c
PageData(u, c) ==
    [reviews |-> RawReviews(u, c), nextPageToken |-> u[c].nextPageToken]

----------------------------------------------------------------------------
(* mappers *)

MapApiReviewToGoogleReview(r) ==
    [reviewId |-> r.reviewId,
     reviewReply |-> IF r.reviewReply # Undef THEN "reply" ELSE Undef]

MapReviews(rs) == [i \in 1 .. Len(rs) |-> MapApiReviewToGoogleReview(rs[i])]

\* a filter that lets every review through
FilterKeepsAll(rs) == rs

RECURSIVE FilterUnrepliedReviews(_)
FilterUnrepliedReviews(rs) ==
    IF rs = <<>> THEN <<>>
    ELSE IF Head(rs).reviewReply = Undef
           THEN <<Head(rs)>> \o FilterUnrepliedReviews(Tail(rs))
           ELSE FilterUnrepliedReviews(Tail(rs))


----------------------------------------------------------------------------
(* Location references: a path is the sequence of its segments *)

ShortLoc == <<"locations", "456">>
FullLoc == <<"accounts", "1", "locations", "456">>
Locs == {ShortLoc, FullLoc}
AccountNames == {<<"accounts", "1">>}

\* a test that takes every reference for a short one
NeverFullPath(loc) == FALSE

\* locationName.includes('accounts/')
IsFullPath(loc) == \E i \in 1 .. Len(loc) : loc[i] = "accounts"

\* a builder that leaves the reference as it came
BuildKeepsReference(loc, accountName) == loc

BuildFullLocationPath(loc, accountName) ==
    IF IsFullPath(loc) THEN loc
    ELSE IF accountName # <<>> THEN accountName \o loc
    ELSE loc

----------------------------------------------------------------------------
(* What a caller observes of its call *)

\* call, upstream, result, fetchLog, exchanges and netLog record one call of
\* a public operation, from its entry to its return.  The caller has the
\* response when the operation has returned: a later event of the service
\* (the clock, a callback, a logout) finds no call in progress and starts
\* from an empty record.  An event during a call leaves the record alone.
Delivered ==
    IF op.pc = "idle"
      THEN /\ call' = NoCall
           /\ upstream' = [k \in PageKeys |-> EmptyPage]
           /\ result' = NoResult
           /\ fetchLog' = <<>>
           /\ exchanges' = 0
           /\ netLog' = NoRequests
      ELSE UNCHANGED <<call, upstream, result, fetchLog, exchanges, netLog>>

----------------------------------------------------------------------------
(* The clock *)

Tick ==
    /\ now < MaxTime
    /\ now' = now + 1
    /\ ev' = Event("step")
    /\ UNCHANGED <<tokens, lo, op, stats, mock>>
    /\ Delivered

----------------------------------------------------------------------------
(* GoogleAuthService.handleCallback *)

\* handleCallback touches no state before getToken(code) is answered: the
\* call is followed from the answer on.
\* a catch that also forgets the token set
CallbackRejectedClears ==
    /\ tokens' = NullTokens
    /\ ev' = [Event("callback.failed") EXCEPT !.pre = tokens]

\* getToken rejected: the catch logs and throws
CallbackRejected ==
    /\ ev' = [Event("callback.failed") EXCEPT !.pre = tokens]
    /\ UNCHANGED tokens

HandleCallback ==
    /\ \/ \E t \in IssuedTokens :
            /\ tokens' = StoreIssued(t)
            /\ ev' = [Event("callback.ok") EXCEPT !.cred = t, !.ret = tokens']
       \/ CallbackRejected
    /\ UNCHANGED <<now, lo, op, stats, mock>>
    /\ Delivered

----------------------------------------------------------------------------
(* GoogleAuthService.logout *)

\* this.tokens?.access_token
HasAccessToken == tokens.exists /\ tokens.access_token # Undef

LogoutStart ==
    /\ lo = "idle"
    /\ IF HasAccessToken
         THEN /\ lo' = "revoking"
              /\ ev' = Event("logout.revoke")
              /\ UNCHANGED tokens
         ELSE /\ tokens' = LoggedOut
              /\ ev' = Event("logout.returned")
              /\ UNCHANGED lo
    /\ UNCHANGED <<now, op, stats, mock>>
    /\ Delivered

\* a logout that lets the rejection of revokeCredentials escape
RevokeRejectedEscapes ==
    /\ ev' = Event("logout.threw")
    /\ UNCHANGED tokens

\* revokeCredentials rejected: the catch logs a warning and logout goes on
RevokeRejected ==
    /\ tokens' = LoggedOut
    /\ ev' = Event("logout.returned.revokeFailed")

\* revokeCredentials resolved or rejected
LogoutFinish ==
    /\ lo = "revoking"
    /\ lo' = "idle"
    /\ \/ /\ tokens' = LoggedOut
          /\ ev' = Event("logout.returned")
       \/ RevokeRejected
    /\ UNCHANGED <<now, op, stats, mock>>
    /\ Delivered

----------------------------------------------------------------------------
(* Exceptions inside a public operation *)

\* An operation returns res.  A listLocations nested in getBusinessProfile
\* returns to it: without a location getBusinessProfile fails, with one it
\* goes on with the first.
Return(res) ==
    IF ~op.nested
      THEN /\ result' = res
           /\ op' = IdleOp
      ELSE IF ~res.success \/ Len(res.locations) = 0
      THEN /\ result' = Failure(call.kind, "No business locations found",
                                "NO_LOCATIONS_ERROR")
           /\ op' = IdleOp
      ELSE /\ op' = [IdleOp EXCEPT !.pc = "resolve", !.loc = res.locations[1]]
           /\ UNCHANGED result

\* an exception that leaves the operation: its caller gets no ServiceResponse
ThrowEscapes(msg) ==
    /\ result' = [NoResult EXCEPT !.kind = "exception", !.error = msg]
    /\ op' = IdleOp

\* Every public operation runs in a try block whose catch returns a failure.
Throw(msg) ==
    Return(Failure(IF op.nested THEN "listLocations" ELSE call.kind, msg,
                   CatchCode(IF op.nested THEN "listLocations" ELSE call.kind)))

----------------------------------------------------------------------------
(* GoogleAuthService.refreshTokenIfNeeded, called where the operation stands *)

\* a test that takes the refresh token for granted
RefreshTokenAssumed == FALSE

\* !this.tokens.refresh_token
MissingRefreshToken == tokens.refresh_token = Undef

RefreshTokenIfNeeded(ret) ==
    /\ IF ~tokens.exists
         THEN /\ Throw("No tokens available")
              /\ ev' = Event("refresh.noTokens")
              /\ UNCHANGED exchanges
         ELSE IF IsTokenValid
         THEN /\ op' = [op EXCEPT !.pc = ret]
              /\ ev' = Event("refresh.valid")
              /\ UNCHANGED <<result, exchanges, netLog>>
         ELSE IF MissingRefreshToken
         THEN /\ Throw("No refresh token available")
              /\ ev' = Event("refresh.noRefreshToken")
              /\ UNCHANGED exchanges
         ELSE /\ op' = [op EXCEPT !.pc = "refreshing", !.ret = ret]
              /\ exchanges' = IF exchanges < MaxCount THEN exchanges + 1 ELSE exchanges
              /\ ev' = Event("refresh.exchange")
              /\ UNCHANGED result
    /\ UNCHANGED <<now, tokens, lo, call, upstream, fetchLog, netLog, stats, mock>>

\* a catch that swallows the rejection and lets the operation go on
RefreshRejectedSwallowed ==
    /\ op' = [op EXCEPT !.pc = op.ret, !.ret = "idle"]
    /\ ev' = [tag |-> "refresh.failed", pre |-> tokens, cred |-> NoCred, ret |-> NullTokens]
    /\ UNCHANGED <<tokens, result>>

\* the exchange rejected: the catch logs and throws
RefreshRejected ==
    /\ Throw("Failed to refresh access token")
    /\ ev' = [tag |-> "refresh.failed", pre |-> tokens, cred |-> NoCred, ret |-> NullTokens]
    /\ UNCHANGED tokens

\* the exchange resolved (the client emits 'tokens' first) or rejected
RefreshResolve ==
    /\ op.pc = "refreshing"
    /\ \/ \E c \in Credentials :
            /\ tokens' = Refreshed(TokensHandler(tokens, c), c)
            /\ op' = [op EXCEPT !.pc = op.ret, !.ret = "idle"]
            /\ ev' = [tag |-> "refresh.ok", pre |-> tokens, cred |-> c, ret |-> NullTokens]
            /\ UNCHANGED result
       \/ RefreshRejected
    /\ UNCHANGED <<now, lo, call, upstream, fetchLog, exchanges, netLog, stats, mock>>


----------------------------------------------------------------------------
(* The public operations of ReviewService: the calls *)

\* the call c enters its operation at pc
StartCall(c, u, pc) ==
    /\ op.pc = "idle"
    /\ call' = c
    /\ upstream' = u
    /\ op' = [IdleOp EXCEPT !.pc = pc, !.loc = c.loc, !.pageToken = c.pageToken]
    /\ result' = NoResult
    /\ fetchLog' = <<>>
    /\ exchanges' = 0
    /\ netLog' = NoRequests
    /\ ev' = Event("step")
    /\ UNCHANGED <<now, tokens, lo, stats, mock>>

StartOp(kind, loc, c, u, pc) ==
    StartCall([NoCall EXCEPT !.kind = kind, !.loc = loc, !.pageToken = c], u, pc)

NoListing == [k \in PageKeys |-> EmptyPage]

\* The whole system is followed on the listings of the specification's
\* scenarios: A (one page, an unreplied and a replied review), B (a replied
\* page, then an unreplied one), a listing without unreplied reviews and one
\* whose last page returns the cursor it was asked for.
ListingOf(pages) ==
    [k \in PageKeys |-> IF k + 1 <= Len(pages) THEN pages[k + 1] ELSE EmptyPage]

ScenarioA ==
    ListingOf(<<[replies |-> <<Undef, "reply">>, nextPageToken |-> NoCursor]>>)
ScenarioB ==
    ListingOf(<<[replies |-> <<"reply">>, nextPageToken |-> 1],
                [replies |-> <<Undef>>, nextPageToken |-> NoCursor]>>)
AllReplied ==
    ListingOf(<<[replies |-> <<"reply">>, nextPageToken |-> 1],
                [replies |-> <<"reply">>, nextPageToken |-> NoCursor]>>)
RepeatedCursor ==
    ListingOf(<<[replies |-> <<"reply">>, nextPageToken |-> 1],
                [replies |-> <<"reply">>, nextPageToken |-> 1]>>)

Scenarios ==
    {<<NoCursor, ScenarioA>>, <<NoCursor, ScenarioB>>, <<NoCursor, AllReplied>>,
     <<NoCursor, RepeatedCursor>>}

GetReviewsCall ==
    \E loc \in Locs, cu \in Scenarios :
        StartOp("getReviews", loc, cu[1], cu[2], "enter")

\* a replyText of the greatest length the tool accepts, and one longer
ReplyLengths == {MaxReplyLength, MaxReplyLength + 1}

\* ReviewService.postReply called directly: replyText goes into the request
\* as it is
PostReplyCall ==
    \E loc \in Locs, n \in ReplyLengths :
        StartCall([NoCall EXCEPT !.kind = "postReply", !.loc = loc,
                                 !.replyLength = n],
                  NoListing, "enter")

\* the post_reply tool handler: a replyText over the limit is answered with
\* an error, any other goes to reviewService.postReply
PostReplyTool ==
    \E loc \in Locs, n \in ReplyLengths :
        LET c == [NoCall EXCEPT !.kind = "postReply", !.loc = loc,
                                !.replyLength = n, !.tool = TRUE]
        IN  IF n > MaxReplyLength
              THEN /\ op.pc = "idle"
                   /\ call' = c
                   /\ result' = [NoResult EXCEPT
                                    !.kind = "toolError",
                                    !.error = "replyText cannot exceed 4096 characters"]
                   /\ upstream' = NoListing
                   /\ fetchLog' = <<>>
                   /\ exchanges' = 0
                   /\ netLog' = NoRequests
                   /\ ev' = Event("step")
                   /\ UNCHANGED <<now, tokens, lo, op, stats, mock>>
              ELSE StartCall(c, NoListing, "enter")

ListLocationsCall ==
    StartOp("listLocations", <<>>, NoCursor, NoListing, "ll.enter")

\* locationName is optional: <<>> is "not given"
GetBusinessProfileCall ==
    \E loc \in Locs \cup {<<>>} :
        StartOp("getBusinessProfile", loc, NoCursor, NoListing, "enter")

----------------------------------------------------------------------------
(* The steps shared by getReviews, postReply and getBusinessProfile *)

\* the first statement of the try block: await refreshTokenIfNeeded()
Enter ==
    /\ op.pc = "enter"
    /\ RefreshTokenIfNeeded(IF call.kind = "getBusinessProfile" THEN "target"
                            ELSE IF call.variant = "inline" THEN "inline.resolve"
                            ELSE "resolve")

\* resolveLocationPath, up to the account lookup of getFirstAccount
ResolveLocationPath ==
    /\ op.pc = "resolve"
    /\ IF IsFullPath(op.loc)
         THEN /\ op' = [op EXCEPT !.path = op.loc,
                                  !.pc = IF call.kind = "getBusinessProfile"
                                           THEN "bp.get" ELSE "client"]
              /\ ev' = Event("step")
              /\ UNCHANGED <<result, netLog>>
         ELSE IF ~ClientAvailable
         THEN /\ Throw("Not authenticated or token expired")
              /\ ev' = Event("step")
              /\ UNCHANGED netLog
         ELSE /\ op' = [op EXCEPT !.pc = "accountList"]
              /\ netLog' = [netLog EXCEPT !.lookups =
                                IF @ < MaxCount THEN @ + 1 ELSE @]
              /\ ev' = Event("step")
              /\ UNCHANGED result
    /\ UNCHANGED <<now, tokens, lo, call, upstream, fetchLog, exchanges, stats, mock>>

\* accounts.list({pageSize: 1}) answered
AccountListResolve ==
    /\ op.pc = "accountList"
    /\ \/ /\ Throw("accounts.list failed")
          /\ ev' = Event("step")
       \/ /\ Throw("No business accounts found")
          /\ ev' = Event("step")
       \/ \E a \in AccountNames :
            /\ op' = [op EXCEPT !.path = BuildFullLocationPath(op.loc, a),
                                !.pc = IF call.kind = "getBusinessProfile"
                                         THEN "bp.get" ELSE "client"]
            /\ ev' = Event("step")
            /\ UNCHANGED result
    /\ UNCHANGED <<now, tokens, lo, call, upstream, fetchLog, exchanges, netLog, stats, mock>>

----------------------------------------------------------------------------
(* The ReviewService that resolves inline: getReviews and postReply build   *)
(* the path themselves and then send the request themselves, with           *)
(* getAuthenticatedClient and fetch as in the API client below.             *)

\* if (!locationName.includes('accounts/')) accounts.list({pageSize: 1})
InlineResolve ==
    /\ op.pc = "inline.resolve"
    /\ IF IsFullPath(op.loc)
         THEN /\ op' = [op EXCEPT !.path = op.loc, !.pc = "auth"]
              /\ UNCHANGED netLog
         ELSE /\ op' = [op EXCEPT !.pc = "inline.accounts"]
              /\ netLog' = [netLog EXCEPT !.lookups =
                                IF @ < MaxCount THEN @ + 1 ELSE @]
    /\ ev' = Event("step")
    /\ UNCHANGED <<now, tokens, lo, call, upstream, result, fetchLog, exchanges, stats, mock>>

\* accounts.list answered: if (accounts.length > 0) the path is prefixed
InlineAccounts ==
    /\ op.pc = "inline.accounts"
    /\ \/ Throw("accounts.list failed")
       \/ /\ op' = [op EXCEPT !.path = op.loc, !.pc = "auth"]
          /\ UNCHANGED result
       \/ \E a \in AccountNames :
            /\ op' = [op EXCEPT !.path = a \o op.loc, !.pc = "auth"]
            /\ UNCHANGED result
    /\ ev' = Event("step")
    /\ UNCHANGED <<now, tokens, lo, call, upstream, fetchLog, exchanges, netLog, stats, mock>>

----------------------------------------------------------------------------
(* GoogleMyBusinessApiClient.get and put *)

\* await this.authService.refreshTokenIfNeeded()
ClientRefresh ==
    /\ op.pc = "client"
    /\ RefreshTokenIfNeeded("auth")

\* getAuthenticatedClient(), then the awaits before the request
ClientAuth ==
    /\ op.pc = "auth"
    /\ IF ClientAvailable
         THEN /\ op' = [op EXCEPT !.pc = "send"]
              /\ ev' = Event("step")
              /\ UNCHANGED result
         ELSE /\ Throw("Not authenticated or token expired")
              /\ ev' = Event("step")
    /\ UNCHANGED <<now, tokens, lo, call, upstream, fetchLog, exchanges, netLog, stats, mock>>

\* fetch(url, ...): the request goes out
ClientSend ==
    /\ op.pc = "send"
    /\ Len(fetchLog) < MaxFetch
    /\ op' = [op EXCEPT !.pc = "fetch"]
    /\ fetchLog' = Append(fetchLog, op.pageToken)
    /\ ev' = Event("step")
    /\ UNCHANGED <<now, tokens, lo, call, upstream, result, exchanges, netLog, stats, mock>>

----------------------------------------------------------------------------
(* ReviewService.getReviews: the page arrives *)

\* a paginator that returns every page as it comes
NeverRecurse(reviews, data) == FALSE

\* a paginator that goes on whenever the page has no unreplied review
RecurseWithoutCursor(reviews, data) == Len(reviews) = 0

\* no unreplied review on this page, and there is a next page
ShouldRecurse(reviews, data) == Len(reviews) = 0 /\ data.nextPageToken # NoCursor

\* a response that drops the continuation cursor
ResponseWithoutCursor(reviews, data) ==
    [kind |-> "getReviews", success |-> TRUE, reviews |-> reviews,
     nextPageToken |-> NoCursor, locations |-> <<>>, error |-> Undef,
     errorCode |-> Undef]

\* return this.getReviews(locationName, pageSize, data.nextPageToken)
Recurse(data) ==
    [IdleOp EXCEPT !.pc = "enter", !.loc = op.loc,
                   !.pageToken = data.nextPageToken]

ReviewsResponse(reviews, data) ==
    [Success("getReviews") EXCEPT !.reviews = reviews,
                                  !.nextPageToken = data.nextPageToken]

\* the statuses upstream answers with: one inside 200..299, two outside
Statuses == {200, 404, 500}

\* a client that takes every response for a good one
AnyStatusOk(status) == TRUE

\* response.ok
ResponseOk(status) == status >= 200 /\ status <= 299

\* `API request failed: ${response.status} - ${errorText}`
ApiError(status) ==
    CASE status = 404 -> "API request failed: 404 - errorText"
      [] status = 500 -> "API request failed: 500 - errorText"
      [] OTHER -> "API request failed: 200 - errorText"

\* handleResponse: the response to a get or a put has arrived
HandleResponse(status, whenOk) ==
    /\ netLog' = [netLog EXCEPT !.status = status]
    /\ IF ~ResponseOk(status)
         THEN Throw(ApiError(status))
         ELSE whenOk

GetReviewsPage ==
    /\ op.pc = "fetch"
    /\ call.kind = "getReviews"
    /\ \E status \in Statuses :
         HandleResponse(status,
            LET data == PageData(upstream, op.pageToken)
                reviews == FilterUnrepliedReviews(MapReviews(data.reviews))
            IN  IF ShouldRecurse(reviews, data)
                  THEN /\ op' = Recurse(data)
                       /\ UNCHANGED result
                  ELSE Return(ReviewsResponse(reviews, data)))
    /\ ev' = Event("step")
    /\ UNCHANGED <<now, tokens, lo, call, upstream, fetchLog, exchanges, stats, mock>>

----------------------------------------------------------------------------
(* ReviewService.postReply: the PUT is answered *)

PostReplyAnswer ==
    /\ op.pc = "fetch"
    /\ call.kind = "postReply"
    /\ \E status \in Statuses :
         HandleResponse(status, /\ result' = Success("postReply")
                                /\ op' = IdleOp)
    /\ ev' = Event("step")
    /\ UNCHANGED <<now, tokens, lo, call, upstream, fetchLog, exchanges, stats, mock>>


----------------------------------------------------------------------------
(* ReviewService.listLocations *)

IdStr == <<"1", "2", "3", "4">>
AccountName(a) == <<"accounts", IdStr[a]>>
\* the Business Information API names a location by its short form
LocationOf(a) == <<"locations", IdStr[a]>>

ListLocationsEnter ==
    /\ op.pc = "ll.enter"
    /\ RefreshTokenIfNeeded("ll.accounts")

\* accounts.list({pageSize: 100}) answered
ListLocationsAccounts ==
    /\ op.pc = "ll.accounts"
    /\ \/ /\ Throw("accounts.list failed")
          /\ ev' = Event("step")
          /\ UNCHANGED netLog
       \/ /\ Return([Failure("listLocations", "No business accounts found", Undef)
                        EXCEPT !.kind = IF op.nested THEN "listLocations" ELSE call.kind])
          /\ ev' = Event("step")
          /\ UNCHANGED netLog
       \/ \E n \in 1 .. MaxAccounts :
            /\ op' = [op EXCEPT !.pc = "ll.locations", !.todo = [i \in 1 .. n |-> i]]
            /\ netLog' = [netLog EXCEPT !.accounts = n]
            /\ ev' = Event("step")
            /\ UNCHANGED result
    /\ UNCHANGED <<now, tokens, lo, call, upstream, fetchLog, exchanges, stats, mock>>

\* a loop whose failed fetch discards what the earlier accounts gave
CollectDropsEarlier(all, got, failed) == IF failed THEN <<>> ELSE all \o got

\* allLocations.push(...locations), skipped when the fetch threw
Collect(all, got, failed) == IF failed THEN all ELSE all \o got

\* one pass of the loop over the accounts: locations.list answered or failed
ListLocationsOfAccount ==
    /\ op.pc = "ll.locations"
    /\ \E got \in {<<>>, <<LocationOf(Head(op.todo))>>}, failed \in BOOLEAN :
         LET all == Collect(op.locations, got, failed)
         IN  /\ failed => got = <<>>
             /\ IF Tail(op.todo) = <<>>
                  THEN Return([Success("listLocations") EXCEPT !.locations = all])
                  ELSE /\ op' = [op EXCEPT !.todo = Tail(op.todo), !.locations = all]
                       /\ UNCHANGED result
             /\ netLog' = [netLog EXCEPT !.locationFetches =
                               Append(@, [account |-> Head(op.todo),
                                          failed |-> failed, locations |-> got])]
             /\ ev' = Event("step")
    /\ UNCHANGED <<now, tokens, lo, call, upstream, fetchLog, exchanges, stats, mock>>

----------------------------------------------------------------------------
(* ReviewService.getBusinessProfile *)

\* without a locationName the first location of listLocations() is taken
ProfileTarget ==
    /\ op.pc = "target"
    /\ op' = IF op.loc = <<>>
               THEN [op EXCEPT !.pc = "ll.enter", !.nested = TRUE]
               ELSE [op EXCEPT !.pc = "resolve"]
    /\ ev' = Event("step")
    /\ UNCHANGED <<now, tokens, lo, call, upstream, result, fetchLog, exchanges, netLog,
                   stats, mock>>

\* accounts.locations.get answered
ProfileGet ==
    /\ op.pc = "bp.get"
    /\ \/ /\ Throw("locations.get failed")
          /\ ev' = Event("step")
       \/ /\ Return(Success("getBusinessProfile"))
          /\ ev' = Event("step")
    /\ UNCHANGED <<now, tokens, lo, call, upstream, fetchLog, exchanges, netLog, stats, mock>>

----------------------------------------------------------------------------
(* ReviewService.getReviewStats over getAllReviews.  The get_review_day_stats *)
(* tool calls getReviewStats, but neither operation is among the sources:     *)
(* both are written here after sections 4.3 and 4.4 of the specification.     *)

\* a review of the statistics path.  createTime is <<date, time of day>>:
\* its first element stands for the first 10 characters (YYYY-MM-DD), the
\* second for the rest
StatReviews ==
    [createTime : {<<d, t>> : d \in 1 .. 2, t \in 1 .. 2},
     starRating : {"ONE", "FIVE"},
     comment : {"", "text"},
     reviewReply : {Undef, "reply"}]

\* the listings a location can have upstream, the empty one among them
StatListings == UNION {[1 .. n -> StatReviews] : n \in 0 .. MaxStatReviews}

NoStatResult == [kind |-> "none", success |-> FALSE, dayStats |-> <<>>, error |-> Undef]

NoStats ==
    [pc |-> "idle", listing |-> <<>>, pageSize |-> 1, cursor |-> NoCursor,
     all |-> <<>>, fetches |-> 0, result |-> NoStatResult]

\* the page upstream answers at a cursor: pageSize reviews from there, and a
\* nextPageToken while reviews remain
StatPage(listing, pageSize, cursor) ==
    LET end == IF cursor + pageSize < Len(listing) THEN cursor + pageSize
               ELSE Len(listing)
    IN  [reviews |-> SubSeq(listing, cursor + 1, end),
         nextPageToken |-> IF end < Len(listing) THEN end ELSE NoCursor]

\* a read path that keeps the reviews without a reply only
KeepUnreplied(reviews) ==
    LET Unreplied(r) == r.reviewReply = Undef
    IN  SelectSeq(reviews, Unreplied)

\* getAllReviews is the plain mode: a page is taken as it comes
KeepAll(reviews) == reviews

\* getAllReviews, one page: the page is added to what was read, and the
\* next page is asked for while upstream returns a nextPageToken
GetAllReviewsPage ==
    /\ stats.pc = "fetch"
    /\ \/ stats' = [stats EXCEPT
                       !.pc = "done",
                       !.result = [kind |-> "getReviewStats", success |-> FALSE,
                                   dayStats |-> <<>>, error |-> ApiError(500)]]
       \/ LET page == StatPage(stats.listing, stats.pageSize, stats.cursor)
          IN  stats' = [stats EXCEPT
                           !.all = @ \o KeepAll(page.reviews),
                           !.cursor = page.nextPageToken,
                           !.fetches = @ + 1,
                           !.pc = IF page.nextPageToken # NoCursor
                                    THEN "fetch" ELSE "aggregate"]
    /\ UNCHANGED <<service, mock>>

Buckets == {"ONE", "TWO", "THREE", "FOUR", "FIVE"}

\* ONE..FIVE mapped to 1..5
StarValue(rating) ==
    CASE rating = "ONE" -> 1
      [] rating = "TWO" -> 2
      [] rating = "THREE" -> 3
      [] rating = "FOUR" -> 4
      [] OTHER -> 5

\* a grouping key that is the whole createTime
WholeCreateTime(createTime) == createTime

\* the date portion of createTime: its first 10 characters
DatePortion(createTime) == SubSeq(createTime, 1, 1)

DatesOf(all) == {DatePortion(all[i].createTime) : i \in DOMAIN all}

\* the dates from the most recent to the oldest
RECURSIVE SortDescending(_)
SortDescending(dates) ==
    IF dates = {} THEN <<>>
    ELSE LET latest == CHOOSE d \in dates : \A e \in dates : e[1] <= d[1]
         IN  <<latest>> \o SortDescending(dates \ {latest})

RECURSIVE SumOfStars(_)
SumOfStars(reviews) ==
    IF reviews = <<>> THEN 0
    ELSE StarValue(Head(reviews).starRating) + SumOfStars(Tail(reviews))

RECURSIVE CommentsOf(_)
CommentsOf(reviews) ==
    IF reviews = <<>> THEN <<>>
    ELSE (IF Head(reviews).comment # "" THEN <<Head(reviews).comment>> ELSE <<>>)
         \o CommentsOf(Tail(reviews))

\* the mean of the star values rounded to one decimal, in tenths
MeanInTenths(reviews) == (20 * SumOfStars(reviews) + Len(reviews)) \div (2 * Len(reviews))

DayStat(all, date) ==
    LET OnDate(r) == DatePortion(r.createTime) = date
        ofDay == SelectSeq(all, OnDate)
    IN  [date |-> date,
         stat |-> [totalReviewCount |-> Len(ofDay),
                   averageRating |-> MeanInTenths(ofDay),
                   ratingDistribution |->
                       [b \in Buckets |->
                           LET InBucket(r) == r.starRating = b
                           IN  Len(SelectSeq(ofDay, InBucket))],
                   comments |-> CommentsOf(ofDay)]]

GroupByDay(all) ==
    LET dates == SortDescending(DatesOf(all))
    IN  [i \in 1 .. Len(dates) |-> DayStat(all, dates[i])]

\* getReviewStats once getAllReviews has read the last page
GetReviewStats ==
    /\ stats.pc = "aggregate"
    /\ stats' = [stats EXCEPT
                    !.pc = "done",
                    !.result = [kind |-> "getReviewStats", success |-> TRUE,
                                dayStats |-> GroupByDay(stats.all), error |-> Undef]]
    /\ UNCHANGED <<service, mock>>

----------------------------------------------------------------------------
(* MockReviewService.  isAuthenticated is set in the constructor and never  *)
(* reset, so checkAuth() holds in every call.                               *)

MockLocations ==
    {"accounts/mock123/locations/loc456", "accounts/mock123/locations/loc789"}

\* the locationName arguments followed: the known ones and an unknown one
MockLocationArgs == MockLocations \cup {"invalid/location"}

\* review_${Date.now()}: the ids of the reviews addMockReview adds, in order
NewReviewIds == <<"review_n1", "review_n2", "review_n3">>

\* mockReviews as constructed: five reviews, the last of them replied
MockReviews ==
    <<[reviewId |-> "review_001", reviewReply |-> Undef],
      [reviewId |-> "review_002", reviewReply |-> Undef],
      [reviewId |-> "review_003", reviewReply |-> Undef],
      [reviewId |-> "review_004", reviewReply |-> Undef],
      [reviewId |-> "review_005", reviewReply |-> "reply"]>>

MockReviewIds ==
    {MockReviews[i].reviewId : i \in DOMAIN MockReviews}
        \cup {NewReviewIds[i] : i \in DOMAIN NewReviewIds}

\* the reviewId arguments followed: every id a review can have, and another
MockReviewIdArgs == MockReviewIds \cup {"invalid_review_id"}

IdsOf(reviews) == [i \in DOMAIN reviews |-> reviews[i].reviewId]

\* what the last operation of the mock was called with and what it returned
NoMockCall ==
    [op |-> "none", locationName |-> "", pageSize |-> 0, pageToken |-> NoCursor,
     reviewId |-> "", success |-> FALSE, errorCode |-> Undef, reviews |-> <<>>,
     nextPageToken |-> NoCursor]

\* reviews: mockReviews; added: the reviews addMockReview has added;
\* last: the last call; walking, walk, walkNext: a caller that started at
\* the first page and follows nextPageToken, the ids it has been given so
\* far and the nextPageToken of its last page;
\* replies: per review id, the postReply calls that succeeded
MockInit ==
    [reviews |-> MockReviews, added |-> 0, last |-> NoMockCall,
     walking |-> FALSE, walk |-> <<>>, walkNext |-> NoCursor,
     replies |-> [id \in MockReviewIds |-> 0]]

\* a page that never comes with a nextPageToken
MockPageWithoutToken(reviews, pageSize, pageToken) ==
    LET startIndex == pageToken
        endIndex == IF startIndex + pageSize < Len(reviews)
                      THEN startIndex + pageSize ELSE Len(reviews)
    IN  [reviews |-> SubSeq(reviews, startIndex + 1, endIndex),
         nextPageToken |-> NoCursor]

\* the page of getReviews: slice(startIndex, endIndex) and its nextPageToken
MockPage(reviews, pageSize, pageToken) ==
    LET startIndex == pageToken
        endIndex == IF startIndex + pageSize < Len(reviews)
                      THEN startIndex + pageSize ELSE Len(reviews)
    IN  [reviews |-> SubSeq(reviews, startIndex + 1, endIndex),
         nextPageToken |-> IF endIndex < Len(reviews) THEN endIndex ELSE NoCursor]

\* MockReviewService.getReviews(locationName, pageSize, pageToken); a
\* pageToken that is not given is NoCursor, and parseInt reads either as 0
MockGetReviews ==
    \E locationName \in MockLocationArgs, pageSize \in 1 .. MaxPageSize,
       pageToken \in 0 .. Len(mock.reviews) + 1 :
        LET args == [NoMockCall EXCEPT !.op = "getReviews",
                                       !.locationName = locationName,
                                       !.pageSize = pageSize,
                                       !.pageToken = pageToken]
            page == MockPage(mock.reviews, pageSize, pageToken)
            follows == mock.walking /\ pageToken # NoCursor
                       /\ pageToken = mock.walkNext
        IN  /\ IF locationName \notin MockLocations
                 THEN mock' = [mock EXCEPT
                                  !.last = [args EXCEPT !.errorCode = "LOCATION_NOT_FOUND"]]
                 ELSE mock' = [mock EXCEPT
                                  !.last = [args EXCEPT
                                               !.success = TRUE,
                                               !.reviews = IdsOf(page.reviews),
                                               !.nextPageToken = page.nextPageToken],
                                  !.walking = (pageToken = NoCursor) \/ follows,
                                  !.walkNext = IF pageToken = NoCursor \/ follows
                                                 THEN page.nextPageToken ELSE NoCursor,
                                  !.walk = IF pageToken = NoCursor
                                             THEN IdsOf(page.reviews)
                                           ELSE IF follows
                                             THEN @ \o IdsOf(page.reviews)
                                           ELSE <<>>]
            /\ UNCHANGED <<service, stats>>

\* a check that never finds a reply
NeverReplied(review) == FALSE

\* review?.reviewReply
HasReply(review) == review.reviewReply # Undef

\* mockReviews.find(r => r.reviewId === reviewId): the index of the first
FindReview(reviews, reviewId) ==
    CHOOSE i \in DOMAIN reviews :
        /\ reviews[i].reviewId = reviewId
        /\ \A j \in 1 .. i - 1 : reviews[j].reviewId # reviewId

\* MockReviewService.postReply(locationName, reviewId, replyText), from the
\* end of its delay on: its tests and its write run without suspension
MockPostReply ==
    \E locationName \in MockLocationArgs, reviewId \in MockReviewIdArgs :
        LET args == [NoMockCall EXCEPT !.op = "postReply",
                                       !.locationName = locationName,
                                       !.reviewId = reviewId]
            Fails(code) ==
                mock' = [mock EXCEPT !.last = [args EXCEPT !.errorCode = code]]
            reviewExists == \E i \in DOMAIN mock.reviews :
                                mock.reviews[i].reviewId = reviewId
        IN  /\ IF locationName \notin MockLocations
                 THEN Fails("LOCATION_NOT_FOUND")
               ELSE IF ~reviewExists
                 THEN Fails("REVIEW_NOT_FOUND")
               ELSE IF HasReply(mock.reviews[FindReview(mock.reviews, reviewId)])
                 THEN Fails("REPLY_ALREADY_EXISTS")
               ELSE mock' = [mock EXCEPT
                                !.reviews[FindReview(mock.reviews, reviewId)].reviewReply
                                    = "reply",
                                !.replies[reviewId] = @ + 1,
                                !.last = [args EXCEPT !.success = TRUE]]
            /\ UNCHANGED <<service, stats>>

\* MockReviewService.addMockReview: the new review goes to the front
AddMockReview ==
    /\ mock.added < MaxAdded
    /\ mock' = [mock EXCEPT
                   !.reviews = <<[reviewId |-> NewReviewIds[mock.added + 1],
                                  reviewReply |-> Undef]>> \o @,
                   !.added = @ + 1,
                   !.last = [NoMockCall EXCEPT !.op = "addMockReview"],
                   !.walking = FALSE, !.walk = <<>>, !.walkNext = NoCursor]
    /\ UNCHANGED <<service, stats>>

----------------------------------------------------------------------------
(* The system *)

Init ==
    /\ now = 1
    /\ tokens = NullTokens
    /\ lo = "idle"
    /\ op = IdleOp
    /\ call = NoCall
    /\ upstream = NoListing
    /\ result = NoResult
    /\ fetchLog = <<>>
    /\ exchanges = 0
    /\ netLog = NoRequests
    /\ ev = Event("init")
    /\ stats = NoStats
    /\ mock = MockInit

Next ==
    \/ Tick
    \/ HandleCallback
    \/ LogoutStart
    \/ LogoutFinish
    \/ GetReviewsCall
    \/ PostReplyCall
    \/ PostReplyTool
    \/ ListLocationsCall
    \/ GetBusinessProfileCall
    \/ Enter
    \/ RefreshResolve
    \/ ResolveLocationPath
    \/ AccountListResolve
    \/ ClientRefresh
    \/ ClientAuth
    \/ ClientSend
    \/ GetReviewsPage
    \/ PostReplyAnswer
    \/ ListLocationsEnter
    \/ ListLocationsAccounts
    \/ ListLocationsOfAccount
    \/ ProfileTarget
    \/ ProfileGet

Spec == Init /\ [][Next]_vars


----------------------------------------------------------------------------
(* One getReviews call on every listing within the bounds.  The call has    *)
(* just been made on a service that handleCallback authenticated: the token *)
(* set is any that it stores, valid or already expired, with or without a   *)
(* refresh token.                                                           *)

InitPaging ==
    /\ now = 1
    /\ tokens \in {StoreIssued(t) : t \in {i \in IssuedTokens : i.expiry_date \in {0, now}}}
    /\ lo = "idle"
    /\ \E loc \in Locs, cu \in Listings :
          /\ call = [NoCall EXCEPT !.kind = "getReviews", !.loc = loc,
                                   !.pageToken = cu[1]]
          /\ upstream = cu[2]
          /\ op = [IdleOp EXCEPT !.pc = "enter", !.loc = loc, !.pageToken = cu[1]]
    /\ result = NoResult
    /\ fetchLog = <<>>
    /\ exchanges = 0
    /\ netLog = NoRequests
    /\ ev = Event("step")
    /\ stats = NoStats
    /\ mock = MockInit

NextPaging ==
    \/ Enter
    \/ RefreshResolve
    \/ ResolveLocationPath
    \/ AccountListResolve
    \/ ClientRefresh
    \/ ClientAuth
    \/ ClientSend
    \/ GetReviewsPage

SpecPaging == InitPaging /\ [][NextPaging]_vars

\* One getReviews or postReply call on the ReviewService that resolves inline.
InitInline ==
    /\ now = 1
    /\ tokens \in {StoreIssued(t) : t \in {i \in IssuedTokens : i.expiry_date \in {0, now}}}
    /\ lo = "idle"
    /\ \E loc \in Locs, cu \in Scenarios, kind \in {"getReviews", "postReply"} :
          /\ call = [NoCall EXCEPT !.kind = kind, !.loc = loc, !.variant = "inline"]
          /\ upstream = IF kind = "getReviews" THEN cu[2] ELSE NoListing
          /\ op = [IdleOp EXCEPT !.pc = "enter", !.loc = loc]
    /\ result = NoResult
    /\ fetchLog = <<>>
    /\ exchanges = 0
    /\ netLog = NoRequests
    /\ ev = Event("step")
    /\ stats = NoStats
    /\ mock = MockInit

NextInline ==
    \/ Enter
    \/ RefreshResolve
    \/ InlineResolve
    \/ InlineAccounts
    \/ ClientAuth
    \/ ClientSend
    \/ GetReviewsPage
    \/ PostReplyAnswer

SpecInline == InitInline /\ [][NextInline]_vars

\* One getReviewStats call: the listing of the location and the page size
\* getAllReviews asks with are drawn here.
InitStats ==
    /\ now = 1
    /\ tokens = NullTokens
    /\ lo = "idle"
    /\ op = IdleOp
    /\ call = NoCall
    /\ upstream = NoListing
    /\ result = NoResult
    /\ fetchLog = <<>>
    /\ exchanges = 0
    /\ netLog = NoRequests
    /\ ev = Event("init")
    /\ \E listing \in StatListings, pageSize \in 1 .. 2 :
          stats = [NoStats EXCEPT !.pc = "fetch", !.listing = listing,
                                  !.pageSize = pageSize]
    /\ mock = MockInit

NextStats ==
    \/ GetAllReviewsPage
    \/ GetReviewStats

SpecStats == InitStats /\ [][NextStats]_vars

\* The MockReviewService under any sequence of its operations.
NextMock ==
    \/ MockGetReviews
    \/ MockPostReply
    \/ AddMockReview

SpecMock == Init /\ [][NextMock]_vars

\* every pending await is answered, and a runnable continuation runs
\* a finite listing: each cursor leads to a later page, so the last page
\* returns none
WellFormedListing ==
    \A k \in PageKeys :
        upstream[k].nextPageToken = NoCursor \/ upstream[k].nextPageToken > k

InitWellFormed == InitPaging /\ WellFormedListing

FairPaging == InitWellFormed /\ [][NextPaging]_vars /\ WF_vars(NextPaging)


----------------------------------------------------------------------------
(* The unreplied retrieval path: what a listing holds, said without the     *)
(* mappers                                                                  *)

GetReviewsSucceeded == result.kind = "getReviews" /\ result.success

\* the positions of page k whose review carries no reply, in order
RECURSIVE UnrepliedFrom(_, _, _)
UnrepliedFrom(u, k, j) ==
    IF j > Len(u[k].replies) THEN <<>>
    ELSE IF u[k].replies[j] = Undef
           THEN <<[reviewId |-> k * MaxRev + j, reviewReply |-> Undef]>>
                    \o UnrepliedFrom(u, k, j + 1)
           ELSE UnrepliedFrom(u, k, j + 1)

UnrepliedOf(u, k) == UnrepliedFrom(u, k, 1)

\* the page keys a walk from cursor c visits, at most n of them
RECURSIVE Walk(_, _, _)
Walk(u, c, n) ==
    IF n = 0 THEN <<>>
    ELSE IF u[c].nextPageToken = NoCursor THEN <<c>>
    ELSE <<c>> \o Walk(u, u[c].nextPageToken, n - 1)

\* the first position of the walk whose page has an unreplied review (0: none)
FirstActionable(u, w) ==
    IF \E i \in 1 .. Len(w) : UnrepliedOf(u, w[i]) # <<>>
      THEN CHOOSE i \in 1 .. Len(w) :
              /\ UnrepliedOf(u, w[i]) # <<>>
              /\ \A j \in 1 .. (i - 1) : UnrepliedOf(u, w[j]) = <<>>
      ELSE 0

CallWalk == Walk(upstream, call.pageToken, MaxPages)

\* C1: every review a successful getReviews returns has no reviewReply, and a
\* review that carries a reviewReply upstream is not among them.
C1_OnlyUnrepliedReturned ==
    GetReviewsSucceeded =>
        /\ \A i \in 1 .. Len(result.reviews) : result.reviews[i].reviewReply = Undef
        /\ \A k \in PageKeys : \A j \in 1 .. Len(upstream[k].replies) :
              upstream[k].replies[j] # Undef =>
                  \A i \in 1 .. Len(result.reviews) :
                      result.reviews[i].reviewId # k * MaxRev + j

\* a page with a replied and an unreplied review was fetched and returned
C1_Witness ==
    /\ GetReviewsSucceeded
    /\ result.reviews # <<>>
    /\ \E j \in 1 .. Len(upstream[fetchLog[Len(fetchLog)]].replies) :
          upstream[fetchLog[Len(fetchLog)]].replies[j] # Undef

\* C2: when the pages before the k-th of the walk hold no unreplied review
\* (each returning a cursor) and the k-th holds one, a successful getReviews
\* has fetched exactly the first k pages of the walk and returns the k-th
\* page's unreplied reviews, in order.
C2_SkipsToFirstActionablePage ==
    LET k == FirstActionable(upstream, CallWalk)
    IN  (GetReviewsSucceeded /\ k > 0) =>
            /\ Len(fetchLog) = k
            /\ fetchLog = SubSeq(CallWalk, 1, k)
            /\ result.reviews = UnrepliedOf(upstream, CallWalk[k])

\* scenario B: the first page is skipped, the second returned
C2_Witness ==
    /\ GetReviewsSucceeded
    /\ call.pageToken = NoCursor
    /\ FirstActionable(upstream, CallWalk) = 2
    /\ Len(fetchLog) = 2
    /\ result.reviews # <<>>

\* C3: a successful getReviews returns the cursor of the last page it
\* fetched, and an empty list only without a cursor.
C3_EmptyOnlyAtEnd ==
    GetReviewsSucceeded =>
        /\ fetchLog # <<>>
        /\ result.nextPageToken = upstream[fetchLog[Len(fetchLog)]].nextPageToken
        /\ result.reviews = <<>> => result.nextPageToken = NoCursor

\* a listing without unreplied reviews was walked to its end
C3_Witness ==
    /\ GetReviewsSucceeded
    /\ result.reviews = <<>>
    /\ Len(fetchLog) = 2

GetReviewsReturned == op.pc = "idle" /\ result.kind = "getReviews"

\* C4: over a finite, well-formed listing every getReviews call returns, and
\* it never fetches more pages than the listing holds from the starting
\* cursor on.
C4_TerminatesWithinRemainingPages ==
    /\ [](WellFormedListing => Len(fetchLog) <= Len(CallWalk))
    /\ WellFormedListing ~> GetReviewsReturned

\* a listing of only replied reviews was walked page by page to its end
C4_Witness ==
    /\ WellFormedListing
    /\ GetReviewsReturned
    /\ result.success
    /\ call.pageToken = NoCursor
    /\ Len(fetchLog) = MaxPages

\* C5: a page without unreplied reviews whose nextPageToken is the cursor it
\* was requested with ends the walk: nothing is fetched after it.
C5_RepeatedCursorEndsWalk ==
    \A i \in 1 .. (Len(fetchLog) - 1) :
        ~ /\ UnrepliedOf(upstream, fetchLog[i]) = <<>>
          /\ upstream[fetchLog[i]].nextPageToken = fetchLog[i]

----------------------------------------------------------------------------
(* The token lifecycle *)

\* the operation stands at a call of refreshTokenIfNeeded and takes it
RefreshCalled ==
    /\ op.pc \in {"enter", "client", "ll.enter"}
    /\ op' # op

\* the operation went on without an exception
WentOn == op'.pc \notin {"idle", "refreshing"} /\ result' = result

\* the operation ended with the failure msg (a listLocations nested in
\* getBusinessProfile is reported by it as a missing location)
FailedWith(msg) ==
    /\ op'.pc = "idle"
    /\ ~result'.success
    /\ result'.kind = call.kind
    /\ ~op.nested => result'.error = msg

\* C6: with a token set whose expiry is in the future, refreshTokenIfNeeded
\* returns without an exchange and without touching the token set.
C6_ValidTokenFastPath ==
    [][(RefreshCalled /\ tokens.exists /\ now < tokens.expires_at) =>
          /\ WentOn
          /\ exchanges' = exchanges
          /\ tokens' = tokens]_vars

\* the fast path was taken one instant before the expiry
C6_Witness ==
    /\ ev.tag = "refresh.valid"
    /\ tokens.exists
    /\ now + 1 = tokens.expires_at
    /\ op.pc \notin {"idle", "refreshing"}

\* the exchange count after one more exchange
OneMore(n) == IF n < MaxCount THEN n + 1 ELSE n

\* C7 (as the code has it): with an expired token set holding a refresh
\* token, refreshTokenIfNeeded starts one exchange and waits for it; when the
\* exchange succeeds, access_token and expires_at are replaced, and
\* refresh_token, scope and token_type keep their values unless the answer
\* reissues a refresh token, which then replaces them with the answer's.
C7_RefreshReplacesAccessToken ==
    /\ [][(RefreshCalled /\ tokens.exists /\ now >= tokens.expires_at
              /\ tokens.refresh_token # Undef) =>
             /\ op'.pc = "refreshing"
             /\ exchanges' = OneMore(exchanges)
             /\ tokens' = tokens]_vars
    /\ [][(op.pc = "refreshing" /\ op' # op) => exchanges' = exchanges]_vars
    /\ [][(op.pc = "refreshing" /\ op'.pc = op.ret) =>
             /\ tokens'.exists
             /\ tokens'.access_token = ev'.cred.access_token
             /\ tokens'.expires_at = IF ev'.cred.expiry_date # 0
                                       THEN ev'.cred.expiry_date
                                       ELSE now + DefaultExpiresIn * MsPerSec
             /\ IF ev'.cred.refresh_token = Undef
                  THEN /\ tokens'.refresh_token = tokens.refresh_token
                       /\ tokens'.scope = tokens.scope
                       /\ tokens'.token_type = tokens.token_type
                  ELSE /\ tokens'.refresh_token = ev'.cred.refresh_token
                       /\ tokens'.scope = ev'.cred.scope
                       /\ tokens'.token_type = ev'.cred.token_type]_vars

\* an expired token set was refreshed by an answer without a refresh token
C7_Witness ==
    /\ ev.tag = "refresh.ok"
    /\ ev.pre.exists
    /\ ev.pre.refresh_token = "rt1"
    /\ ev.cred.refresh_token = Undef
    /\ tokens.access_token = "at2"
    /\ tokens.refresh_token = "rt1"
    /\ exchanges = 1

\* C7 as stated: after a successful exchange refresh_token, scope and
\* token_type are those of the token set before it.
C7_Stated ==
    ev.tag = "refresh.ok" =>
        /\ tokens.access_token = ev.cred.access_token
        /\ tokens.refresh_token = ev.pre.refresh_token
        /\ tokens.scope = ev.pre.scope
        /\ tokens.token_type = ev.pre.token_type

\* C8: without a token set, and with an expired one that has no refresh
\* token, refreshTokenIfNeeded fails without an exchange and without touching
\* the token state, with one error for each of the two cases.
C8_FailsWithoutNetwork ==
    /\ [][(RefreshCalled /\ ~tokens.exists) =>
             /\ FailedWith("No tokens available")
             /\ exchanges' = exchanges
             /\ tokens' = tokens]_vars
    /\ [][(RefreshCalled /\ tokens.exists /\ now >= tokens.expires_at
              /\ tokens.refresh_token = Undef) =>
             /\ FailedWith("No refresh token available")
             /\ exchanges' = exchanges
             /\ tokens' = tokens]_vars

\* getReviews failed on an expired token set without a refresh token
C8_Witness ==
    /\ ev.tag = "refresh.noRefreshToken"
    /\ tokens.exists
    /\ now >= tokens.expires_at
    /\ result.kind = "getReviews"
    /\ result.error = "No refresh token available"
    /\ exchanges = 0

\* C9 (as the code has it): a failed exchange ends the public operation with
\* a failure result and leaves the token state as it was; nothing is
\* attempted after it.
C9_RefreshFailureSurfaced ==
    ev.tag = "refresh.failed" =>
        /\ op.pc = "idle"
        /\ result.kind = call.kind
        /\ ~result.success
        /\ call.kind # "getBusinessProfile" =>
              result.error = "Failed to refresh access token"
        /\ tokens = ev.pre

\* the one exchange of a postReply failed
C9_Witness ==
    /\ ev.tag = "refresh.failed"
    /\ call.kind = "postReply"
    /\ ~result.success
    /\ tokens.exists
    /\ exchanges = 1

\* C9 as stated: an operation whose exchange failed has attempted one
\* exchange at most.
C9_Stated == ev.tag = "refresh.failed" => exchanges <= 1

\* C10: logout returns whether or not the revocation succeeded, and with the
\* token set cleared: isTokenValid is false, and a refreshTokenIfNeeded that
\* comes next fails for want of tokens.
C10_LogoutAlwaysClears ==
    /\ [](ev.tag \in {"logout.returned", "logout.returned.revokeFailed",
                      "logout.threw"} =>
             /\ ev.tag # "logout.threw"
             /\ lo = "idle"
             /\ tokens = NullTokens
             /\ ~IsTokenValid)
    /\ [][(RefreshCalled /\ ev.tag \in {"logout.returned",
                                        "logout.returned.revokeFailed"}) =>
             /\ FailedWith("No tokens available")
             /\ exchanges' = exchanges]_vars

\* the revocation of a held access token was rejected, and logout returned
C10_Witness ==
    /\ ev.tag = "logout.returned.revokeFailed"
    /\ lo = "idle"
    /\ ~tokens.exists

\* C11: handleCallback either stores the issued token set as the current
\* token state and returns it, or fails and leaves the token state as it was.
C11_CallbackStoresOrLeaves ==
    /\ ev.tag = "callback.ok" =>
          /\ tokens.exists
          /\ tokens.access_token = ev.cred.access_token
          /\ tokens.refresh_token = ev.cred.refresh_token
          /\ tokens.scope = ev.cred.scope
          /\ tokens.token_type = (IF ev.cred.token_type = Undef
                                    THEN "Bearer" ELSE ev.cred.token_type)
          /\ ev.ret = tokens
    /\ ev.tag = "callback.failed" => tokens = ev.pre

\* a code exchange failed on a service that held a token set
C11_Witness ==
    /\ ev.tag = "callback.failed"
    /\ tokens.exists
    /\ tokens.access_token = "at2"

\* C12: the token set that a code exchange or a refresh has just stored has
\* expires_at = now + expires_in * 1000, with now the time of that step.
C12_ExpiresAtDerived ==
    ev.tag \in {"callback.ok", "refresh.ok"} =>
        tokens.expires_at = now + tokens.expires_in * MsPerSec

----------------------------------------------------------------------------
(* Location resolution *)

\* the reference starts with the accounts segment
Qualified(loc) == loc # <<>> /\ loc[1] = "accounts"

\* the operation stands at resolveLocationPath and takes it
ResolveCalled == op.pc = "resolve" /\ op' # op

\* C13: resolving a reference that holds the accounts segment returns it
\* unchanged without an account lookup; what a resolution returns holds the
\* accounts segment, so resolving it again returns it again.
C13_QualifiedPathUnchanged ==
    /\ [][(ResolveCalled /\ Qualified(op.loc)) =>
             /\ op'.path = op.loc
             /\ op'.pc \in {"client", "bp.get"}
             /\ netLog' = netLog
             /\ result' = result]_vars
    /\ [](op.path # <<>> => Qualified(op.path))

\* getReviews resolved the same qualified path for two pages, without a lookup
C13_Witness ==
    /\ GetReviewsSucceeded
    /\ Qualified(call.loc)
    /\ Len(fetchLog) = 2
    /\ netLog.lookups = 0

\* C14: resolving a short reference looks the account up once and, when an
\* account exists, yields the account's name followed by the reference;
\* nothing is kept: a getReviews on a short reference has looked the account
\* up once for every page it fetched.
C14_ShortFormLooksUpEachTime ==
    /\ [][(ResolveCalled /\ ~Qualified(op.loc) /\ op'.pc # "idle") =>
             /\ op'.pc = "accountList"
             /\ netLog'.lookups = OneMore(netLog.lookups)]_vars
    /\ [][(op.pc = "accountList" /\ op' # op) =>
             /\ netLog' = netLog
             /\ op'.pc # "idle" =>
                   /\ op'.pc \in {"client", "bp.get"}
                   /\ \E a \in AccountNames : op'.path = a \o op.loc]_vars
    /\ []((GetReviewsSucceeded /\ ~Qualified(call.loc)) =>
             netLog.lookups = (IF Len(fetchLog) < MaxCount
                                 THEN Len(fetchLog) ELSE MaxCount))

\* getReviews on locations/456 fetched two pages and looked the account up twice
C14_Witness ==
    /\ GetReviewsSucceeded
    /\ call.loc = ShortLoc
    /\ Len(fetchLog) = 2
    /\ netLog.lookups = 2
    /\ result.reviews # <<>>

\* C15: getReviews and postReply send no request for an unresolved path: a
\* short reference whose account lookup found no account ends the operation
\* with a failure instead.
C15_ShortPathNeverSent ==
    (call.kind \in {"getReviews", "postReply"} /\ op.pc = "fetch") =>
        Qualified(op.path)

----------------------------------------------------------------------------
(* The public boundary of ReviewService *)

Operations == {"listLocations", "getReviews", "postReply", "getBusinessProfile"}

\* the operation in flight ends with this step
Ends == op.pc # "idle" /\ op'.pc = "idle"

\* C16: a public operation ends in a ServiceResponse of that operation,
\* whatever failed in it: a failure is a response with success = false and a
\* message, never an exception.
C16_NothingThrown ==
    [][Ends =>
          /\ call.kind \in Operations
          /\ result'.kind = call.kind
          /\ ~result'.success => result'.error # Undef]_vars

\* the PUT of a postReply was answered with a server error
C16_Witness ==
    /\ op.pc = "idle"
    /\ result.kind = "postReply"
    /\ ~result.success
    /\ result.error = ApiError(500)
    /\ Len(fetchLog) = 1

\* C17: a ServiceResponse is one of two variants: a success without error
\* and errorCode, or a failure with both an error and an errorCode.
C17_ExactlyOneVariant ==
    result.kind \in Operations =>
        IF result.success
          THEN result.error = Undef /\ result.errorCode = Undef
          ELSE result.error # Undef /\ result.errorCode # Undef

----------------------------------------------------------------------------
(* listLocations over several accounts *)

\* the locations of the fetches that succeeded, in the order of the fetches
RECURSIVE Fetched(_)
Fetched(log) ==
    IF log = <<>> THEN <<>>
    ELSE (IF Head(log).failed THEN <<>> ELSE Head(log).locations)
             \o Fetched(Tail(log))

ListLocationsSucceeded == result.kind = "listLocations" /\ result.success

\* C18: a listLocations that succeeded has fetched the locations of every
\* account of the list, in account order, whether or not earlier fetches
\* failed, and returns exactly the locations of the fetches that succeeded,
\* in that order.
C18_PartialFailureSkipsAccount ==
    ListLocationsSucceeded =>
        /\ Len(netLog.locationFetches) = netLog.accounts
        /\ \A i \in 1 .. Len(netLog.locationFetches) :
              netLog.locationFetches[i].account = i
        /\ result.locations = Fetched(netLog.locationFetches)

\* the first account's fetch gave a location, the second account's fetch failed
C18_Witness ==
    /\ ListLocationsSucceeded
    /\ netLog.accounts = 2
    /\ ~netLog.locationFetches[1].failed
    /\ netLog.locationFetches[2].failed
    /\ result.locations = <<LocationOf(1)>>

\* C19: listLocations does not succeed when no account was reachable: with
\* an empty account list, or with every location fetch failed, it returns a
\* failure.
C19_TotalFailureSurfaces ==
    ListLocationsSucceeded =>
        \E i \in 1 .. Len(netLog.locationFetches) :
            ~netLog.locationFetches[i].failed

\* C20: a postReply whose replyText is longer than 4096 characters causes no
\* network call (no refresh exchange, no account lookup, no PUT) and does not
\* succeed, through the tool handler and directly.
C20_LongReplyRejected ==
    (call.kind = "postReply" /\ call.replyLength > MaxReplyLength) =>
        /\ exchanges = 0
        /\ netLog.lookups = 0
        /\ fetchLog = <<>>
        /\ ~result.success

----------------------------------------------------------------------------
(* C21: the API client refreshes before every upstream call *)

\* a method of the API client is entered: get and put at their first
\* statement, getFirstAccount where resolveLocationPath calls it
ClientCallBegins ==
    /\ op' # op
    /\ \/ op.pc = "client"
       \/ op.pc = "resolve" /\ ~IsFullPath(op.loc)

\* the token set is there, is past its expiry and holds a refresh token:
\* refreshTokenIfNeeded would exchange it
Refreshable == tokens.exists /\ ~IsTokenValid /\ ~MissingRefreshToken

\* C21: every upstream call of the API client (get, put, post and the
\* account list of getFirstAccount) is preceded, in that client call, by
\* refreshTokenIfNeeded: a client call entered with an expired token set that
\* can be refreshed exchanges the refresh token before anything else.
C21_ClientRefreshesFirst ==
    [][(ClientCallBegins /\ Refreshable) => op'.pc = "refreshing"]_vars

----------------------------------------------------------------------------
(* C22: a response outside 200..299 *)

\* the response to the request of getReviews or postReply arrives
ResponseArrives ==
    /\ op.pc = "fetch"
    /\ call.kind \in {"getReviews", "postReply"}
    /\ op' # op

----------------------------------------------------------------------------
(* C23: who writes the token set, and when *)

\* the step is the write of handleCallback, of refreshTokenIfNeeded (with
\* the 'tokens' handler its exchange fires) or of logout
TokenWriters ==
    {"callback.ok", "refresh.ok", "logout.returned", "logout.returned.revokeFailed"}

\* refreshTokenIfNeeded has checked the token set and awaits the exchange,
\* before and after the step
RefreshSuspended == op.pc = "refreshing" /\ op'.pc = "refreshing"

\* logout has read the access token and awaits the revocation, before and
\* after the step
LogoutSuspended == lo = "revoking" /\ lo' = "revoking"

\* C23: the token set is written only by refreshTokenIfNeeded, handleCallback
\* and logout, and none of them is suspended between its check of the token
\* set and its write: while one of them stands between the two, no other
\* operation writes the token set.
C23_TokenWritesAreAtomic ==
    /\ [][tokens' # tokens => ev'.tag \in TokenWriters]_vars
    /\ [][(RefreshSuspended \/ LogoutSuspended) => tokens' = tokens]_vars

----------------------------------------------------------------------------
(* C24, C25: the statistics by day *)

\* getReviewStats has returned a day list
StatsSucceeded == stats.pc = "done" /\ stats.result.success

\* the pages of a listing read pageSize reviews at a time (an empty listing
\* is one empty page)
PagesOf(listing, pageSize) ==
    IF listing = <<>> THEN 1 ELSE (Len(listing) + pageSize - 1) \div pageSize

RECURSIVE SumOfCounts(_)
SumOfCounts(dayStats) ==
    IF dayStats = <<>> THEN 0
    ELSE Head(dayStats).stat.totalReviewCount + SumOfCounts(Tail(dayStats))

\* C24: the statistics are taken over every review of every upstream page,
\* replied or not: getAllReviews follows nextPageToken to the last page and
\* filters nothing, and a location without reviews gets an empty day list.
C24_StatsOverEveryReview ==
    StatsSucceeded =>
        /\ stats.all = stats.listing
        /\ stats.cursor = NoCursor
        /\ stats.fetches = PagesOf(stats.listing, stats.pageSize)
        /\ SumOfCounts(stats.result.dayStats) = Len(stats.listing)
        /\ stats.listing = <<>> => stats.result.dayStats = <<>>

\* a replied review on the first page and an unreplied one on the second
C24_Witness ==
    /\ StatsSucceeded
    /\ Len(stats.listing) = 2
    /\ stats.pageSize = 1
    /\ stats.listing[1].reviewReply # Undef
    /\ stats.listing[2].reviewReply = Undef
    /\ stats.fetches = 2

\* the reviews of the listing created on the date
CreatedOn(listing, date) ==
    {k \in DOMAIN listing : <<listing[k].createTime[1]>> = date}

SumOfBuckets(distribution) ==
    distribution["ONE"] + distribution["TWO"] + distribution["THREE"]
        + distribution["FOUR"] + distribution["FIVE"]

\* C25: the day list partitions the reviews by the date portion of
\* createTime: every date of a review appears, each date once, the dates
\* strictly descending; a day's count is the number of reviews of that date
\* and the sum of its five rating buckets; the counts add up to the number
\* of reviews.
C25_DayListPartitions ==
    StatsSucceeded =>
        LET days == stats.result.dayStats
        IN  /\ \A k \in DOMAIN stats.listing :
                  \E i \in DOMAIN days :
                      days[i].date = <<stats.listing[k].createTime[1]>>
            /\ \A i, j \in DOMAIN days : i < j => days[i].date[1] > days[j].date[1]
            /\ \A i \in DOMAIN days :
                  /\ days[i].stat.totalReviewCount
                        = Cardinality(CreatedOn(stats.listing, days[i].date))
                  /\ days[i].stat.totalReviewCount
                        = SumOfBuckets(days[i].stat.ratingDistribution)
            /\ SumOfCounts(days) = Len(stats.listing)

\* the review of the earlier date comes first in the listing and last in
\* the day list
C25_Witness ==
    /\ StatsSucceeded
    /\ Len(stats.listing) = 2
    /\ stats.listing[1].createTime[1] < stats.listing[2].createTime[1]
    /\ Len(stats.result.dayStats) = 2
    /\ stats.result.dayStats[1].date = <<stats.listing[2].createTime[1]>>
    /\ stats.result.dayStats[1].stat.ratingDistribution["FIVE"] = 1

----------------------------------------------------------------------------
(* C26, C27: the mock service *)

\* the step is a call of the mock operation name
MockCalled(name) == mock'.last.op = name /\ mock' # mock

\* the reviews the mock holds under the id
HeldUnder(reviews, reviewId) == {i \in DOMAIN reviews : reviews[i].reviewId = reviewId}

\* C26: MockReviewService.postReply succeeds exactly when the location is
\* known, the review exists and the review has no reply; then that review
\* gets the reply, and in every other case the call fails with an error code
\* and mockReviews stays as it was.  No review is replied to twice.
C26_MockReplyAtMostOnce ==
    /\ [][MockCalled("postReply") =>
            LET a == mock'.last
                held == HeldUnder(mock.reviews, a.reviewId)
                canReply == /\ a.locationName \in MockLocations
                            /\ held # {}
                            /\ \A i \in held : mock.reviews[i].reviewReply = Undef
            IN  /\ a.success <=> canReply
                /\ a.success =>
                      /\ \A i \in held : mock'.reviews[i].reviewReply # Undef
                      /\ \A i \in DOMAIN mock.reviews \ held :
                            mock'.reviews[i] = mock.reviews[i]
                /\ ~a.success =>
                      /\ a.errorCode # Undef
                      /\ mock'.reviews = mock.reviews]_vars
    /\ [](\A id \in MockReviewIds : mock.replies[id] <= 1)

\* review_001 was replied to, and a second reply to it was refused
C26_Witness ==
    /\ mock.last.op = "postReply"
    /\ mock.last.reviewId = "review_001"
    /\ mock.last.errorCode = "REPLY_ALREADY_EXISTS"
    /\ mock.replies["review_001"] = 1

\* C27: for a known location MockReviewService.getReviews returns the
\* min(pageSize, remaining) reviews that follow the cursor and a
\* nextPageToken exactly when reviews remain after them; a caller that
\* starts without a cursor and follows nextPageToken until none is returned
\* has been given every stored review once, in the stored order.
C27_MockPagesCoverStore ==
    /\ [][(MockCalled("getReviews") /\ mock'.last.locationName \in MockLocations) =>
            LET a == mock'.last
                n == Len(mock.reviews)
                remaining == IF a.pageToken < n THEN n - a.pageToken ELSE 0
                count == IF a.pageSize < remaining THEN a.pageSize ELSE remaining
            IN  /\ a.success
                /\ Len(a.reviews) = count
                /\ \A k \in 1 .. count :
                      a.reviews[k] = mock.reviews[a.pageToken + k].reviewId
                /\ (a.nextPageToken # NoCursor) <=> (a.pageToken + count < n)
                /\ a.nextPageToken # NoCursor =>
                      a.nextPageToken = a.pageToken + count]_vars
    /\ []((mock.walking /\ mock.walkNext = NoCursor) =>
             mock.walk = [i \in DOMAIN mock.reviews |-> mock.reviews[i].reviewId])

\* a walk of three pages over the five reviews has ended
C27_Witness ==
    /\ mock.walking
    /\ mock.walkNext = NoCursor
    /\ Len(mock.walk) = 5
    /\ mock.last.op = "getReviews"
    /\ mock.last.pageToken = 4
    /\ mock.last.pageSize = 2

----------------------------------------------------------------------------
(* C28: requests and the token set *)

\* the step sends a request upstream: the get or put of the API client, or
\* the account list of getFirstAccount
RequestSent ==
    \/ op.pc = "send" /\ op'.pc = "fetch"
    \/ op.pc = "resolve" /\ op'.pc = "accountList"

\* C28: a request goes upstream only while a token set exists whose
\* expires_at lies ahead of the clock.
C28_RequestsOnlyWhenFresh ==
    [][RequestSent => (tokens.exists /\ now < tokens.expires_at)]_vars

----------------------------------------------------------------------------
(* C29: after logout *)

\* C29: a token set that logout has cleared stays cleared until
\* handleCallback stores a new one: no other step, and no refresh exchange
\* that was in flight when logout ran, brings a token set back.
C29_ClearedUntilCallback ==
    [][(~tokens.exists /\ tokens'.exists) => ev'.tag = "callback.ok"]_vars

----------------------------------------------------------------------------
(* C30: lookups of one getReviews call *)

\* C30: a getReviews call on a short-form location that returns reviews has
\* looked the account up exactly once, however many all-replied pages it
\* skipped on the way.
C30_OneLookupPerCall ==
    (GetReviewsSucceeded /\ ~Qualified(call.loc)) => netLog.lookups = 1

====
